---- MODULE Spec2Model ----
(***************************************************************************)
(* Model of the mesh/trajectory export tooling of Dynamic-2DGS:            *)
(*   utils/mesh_utils.py        post_process_mesh, to_cam_open3d,          *)
(*                              GaussianExtractor                          *)
(*   render_mesh_trajectory.py  the __main__ script                        *)
(*                                                                         *)
(* Images produced by the external renderer are symbolic records naming    *)
(* the camera and the time input they were rendered from.  Files are path  *)
(* strings built the way the code builds them (os.path.join, format).      *)
(* Python indices are 0-based; sequences here are 1-based, so list entry   *)
(* idx of the code is element idx + 1 of the sequence.                     *)
(*                                                                         *)
(* Three specifications:                                                   *)
(*   Spec        a client calling the GaussianExtractor methods            *)
(*   PostSpec    post_process_mesh applied to small meshes                 *)
(*   ScriptSpec  one run of render_mesh_trajectory.py                      *)
(***************************************************************************)
EXTENDS Integers, Sequences, FiniteSets, TLC

VARIABLES
    gaussExtractor, \* the GaussianExtractor object: its list fields
    fs,             \* the file system: set of paths of directories and files
    writes,         \* files written by the latest export_image, in order
    volume,         \* calls made on the TSDF volume by the latest extraction
    mesh,           \* mesh returned by the latest extraction, or NoMesh
    lastRecon,      \* argument of the latest reconstruction still in effect
    lastOp,         \* name of the latest method called on the extractor
    raised,         \* exception raised by the latest call, or "none"
    calls,          \* number of calls made by the client
    pm,             \* post_process_mesh: its input and its result
    pc,             \* script: position in __main__
    args,           \* script: the parsed command line
    scene,          \* script: the loaded scene (camera counts, iteration)
    mesh_i,         \* script: the index i of the mesh loop
    trace,          \* script: the calls made so far, in order
    video           \* script: frames appended to output_video.mp4, or NoVideo

vars == <<gaussExtractor, fs, writes, volume, mesh, lastRecon, lastOp, raised,
          calls, pm, pc, args, scene, mesh_i, trace, video>>

extractorVars == <<gaussExtractor, fs, writes, volume, mesh, lastRecon,
                   lastOp, raised, calls>>
scriptVars == <<pc, args, scene, mesh_i, trace, video>>

-----------------------------------------------------------------------------
(* Bounds of the model *)

MaxCams == 2      \* longest camera list a client passes; most scene cameras
NumCamIds == 3    \* distinct cameras a client picks from
MaxCalls == 3     \* calls a client makes on one extractor
MaxTris == 3      \* most triangles of a mesh given to post_process_mesh

-----------------------------------------------------------------------------
(* Strings: decimal formatting and paths *)

Digits == <<"0", "1", "2", "3", "4", "5", "6", "7", "8", "9">>

RECURSIVE Str(_)
Str(n) == IF n < 10 THEN Digits[n + 1]
          ELSE Str(n \div 10) \o Digits[(n % 10) + 1]

RECURSIVE ZFill(_, _)
ZFill(s, w) == IF Len(s) >= w THEN s ELSE ZFill("0" \o s, w)

\* Faulty variant of Format05d: pads to four digits.
Format04d(idx) == ZFill(Str(idx), 4)

\* "{0:05d}".format(idx) and str(i).zfill(5), for idx >= 0
Format05d(idx) == ZFill(Str(idx), 5)

\* A path is the sequence of its components; os.path.join(a, b) and
\* a + "/" + b both add one component.
PathJoin(a, b) == Append(a, b)

\* os.makedirs(p, exist_ok=True): p and every missing ancestor
MakeDirs(files, p) == files \cup {SubSeq(p, 1, k) : k \in 1..Len(p)}

\* os.listdir(d): the names of the entries directly under d
ListDir(files, d) ==
    {p[Len(p)] : p \in {q \in files : /\ Len(q) = Len(d) + 1
                                       /\ SubSeq(q, 1, Len(d)) = d}}

-----------------------------------------------------------------------------
(* Meshes and post_process_mesh *)
(* A mesh is a list of vertices (distinct points) and a list of triangles,  *)
(* each a triple of 0-based indices into the vertex list.                   *)

Verts == 0..4

Point(v) == <<"point", v>>

Min(S) == CHOOSE x \in S : \A y \in S : x <= y

\* The three edges of a triangle, each as the ordered pair (min, max).
OrderedEdge(a, b) == IF a <= b THEN <<a, b>> ELSE <<b, a>>
Edges(tri) == {OrderedEdge(tri[1], tri[2]), OrderedEdge(tri[2], tri[3]),
               OrderedEdge(tri[3], tri[1])}

\* Triangles (by position in the list) adjacent to some triangle of S.
Neighbours(triangles, S) ==
    {u \in 1..Len(triangles) :
        \E t \in S : Edges(triangles[t]) \cap Edges(triangles[u]) # {}}

RECURSIVE Grow(_, _)
Grow(triangles, S) ==
    LET T == S \cup Neighbours(triangles, S)
    IN  IF T = S THEN S ELSE Grow(triangles, T)

\* The connected cluster of triangle t: what a search from t over shared
\* edges reaches.
Cluster(triangles, t) == Grow(triangles, {t})

\* cluster_connected_triangles: per triangle the index of its cluster
\* (clusters numbered from 0 in order of their first triangle), and per
\* cluster its number of triangles.
cluster_connected_triangles(m) ==
    LET tris == m.triangles
        first(t) == Min(Cluster(tris, t))
        firsts == {first(t) : t \in 1..Len(tris)}
        index(t) == Cardinality({f \in firsts : f < first(t)})
        size(c) == Cardinality({t \in 1..Len(tris) : index(t) = c})
    IN  [triangle_clusters |-> [t \in 1..Len(tris) |-> index(t)],
         cluster_n_triangles |->
             [c \in 1..Cardinality(firsts) |-> size(c - 1)]]

RECURSIVE SelectIndices(_, _, _)
SelectIndices(seq, keep, i) ==
    IF i > Len(seq) THEN <<>>
    ELSE (IF keep[i] THEN <<seq[i]>> ELSE <<>>)
         \o SelectIndices(seq, keep, i + 1)

remove_triangles_by_mask(m, mask) ==
    [m EXCEPT !.triangles =
        SelectIndices(m.triangles, [t \in 1..Len(m.triangles) |-> ~mask[t]], 1)]

\* remove_unreferenced_vertices: drop the vertices no triangle uses and
\* renumber the triangles' indices.
remove_unreferenced_vertices(m) ==
    LET used == {m.triangles[t][j] :
                    t \in 1..Len(m.triangles), j \in 1..3}
        newIndex(v) == Cardinality({u \in used : u < v})
    IN  [vertices |->
            SelectIndices(m.vertices,
                [i \in 1..Len(m.vertices) |-> (i - 1) \in used], 1),
         triangles |->
            [t \in 1..Len(m.triangles) |->
                [j \in 1..3 |-> newIndex(m.triangles[t][j])]]]

IsDegenerate(tri) == tri[1] = tri[2] \/ tri[2] = tri[3] \/ tri[1] = tri[3]

remove_degenerate_triangles(m) ==
    [m EXCEPT !.triangles = SelectSeq(m.triangles, LAMBDA tri : ~IsDegenerate(tri))]

\* Faulty variant of TrianglesToRemove: also removes clusters of exactly
\* num_triangles_to_keep triangles.
TrianglesToRemoveInclusive(m, num_triangles_to_keep) ==
    LET c == cluster_connected_triangles(m)
    IN  [t \in 1..Len(m.triangles) |->
            c.cluster_n_triangles[c.triangle_clusters[t] + 1]
                <= num_triangles_to_keep]

\* cluster_n_triangles[triangle_clusters] < num_triangles_to_keep
TrianglesToRemove(m, num_triangles_to_keep) ==
    LET c == cluster_connected_triangles(m)
    IN  [t \in 1..Len(m.triangles) |->
            c.cluster_n_triangles[c.triangle_clusters[t] + 1]
                < num_triangles_to_keep]

\* post_process_mesh works on a deep copy and returns it.
post_process_mesh(m, num_triangles_to_keep) ==
    LET mesh_0 == m
        masked == remove_triangles_by_mask(
                      mesh_0, TrianglesToRemove(mesh_0, num_triangles_to_keep))
    IN  remove_degenerate_triangles(remove_unreferenced_vertices(masked))

-----------------------------------------------------------------------------
(* Cameras *)

\* A time is the quotient num / den.
Time(num, den) == [num |-> num, den |-> den]

\* A camera: the set it belongs to, its index there, its time and the size
\* class of its image.  The other attributes the code reads are functions of
\* these.
Camera(set, i, t, size) == [set |-> set, uid |-> i, time |-> t, size |-> size]

image_width(cam) == 4 + 2 * cam.size
image_height(cam) == 3 + cam.size
FoVx(cam) == <<"FoVx", cam.set, cam.uid>>
FoVy(cam) == <<"FoVy", cam.set, cam.uid>>
world_view_transform(cam) == <<"world_view_transform", cam.set, cam.uid>>
fid(cam) == <<"fid", cam.set, cam.uid>>
HasAlphaMask(cam) == cam.uid % 2 = 1

\* The cameras of one set of a scene; the images of a dataset share one size.
CameraList(set, n, t) == [i \in 1..n |-> Camera(set, i - 1, t, 0)]

\* The cameras a client picks from: two of each image size.
ClientCams == {Camera("client", i, Time(i, NumCamIds), i \div 2) :
                  i \in 0..(NumCamIds - 1)}

\* The camera lists a client passes: up to MaxCams distinct cameras, in any
\* order.
ClientLists ==
    UNION {{l \in [1..n -> ClientCams] :
               \A i, j \in 1..n : i # j => l[i] # l[j]} : n \in 0..MaxCams}

-----------------------------------------------------------------------------
(* GaussianExtractor *)

EmptyLists ==
    [depthmaps |-> <<>>, alphamaps |-> <<>>, rgbmaps |-> <<>>,
     normals |-> <<>>, depth_normals |-> <<>>, points |-> <<>>,
     viewpoint_stack |-> <<>>]

clean(ex) == EmptyLists

\* The time input handed to deform.step for one camera.
\* Both kinds of deform model (mlp, node) expand the same value.
TimeInput(viewpoint_cam, state) ==
    IF state = "mesh"
    THEN [from |-> "time", value |-> viewpoint_cam.time]
    ELSE [from |-> "fid", value |-> fid(viewpoint_cam)]

\* One buffer entry: which output of render, of which camera, at which time.
Rendered(what, viewpoint_cam, state) ==
    [map |-> what, view |-> viewpoint_cam,
     time_input |-> TimeInput(viewpoint_cam, state),
     masked |-> FALSE]

\* The shape of a rendered map: that of its camera's image.
Shape(entry) == <<image_height(entry.view), image_width(entry.view)>>

\* torch.stack(maps) raises RuntimeError on an empty list and on tensors of
\* different shapes.  rgbmaps is stacked first; the five buffers of a call
\* share their shapes, so it decides for all.
StackRaises(maps) ==
    \/ Len(maps) = 0
    \/ \E i \in 1..Len(maps) : Shape(maps[i]) # Shape(maps[1])

\* What the camera loop appends to one buffer: one entry per camera of the
\* stack, in stack order.
Renderings(viewpoint_stack, state, what) ==
    [i \in 1..Len(viewpoint_stack) |->
        Rendered(what, viewpoint_stack[i], state)]

\* The camera loop over self.viewpoint_stack.
ReconstructLoop(ex, state) ==
    LET R(what) == Renderings(ex.viewpoint_stack, state, what)
    IN  [ex EXCEPT
            !.rgbmaps = @ \o R("rgb"),
            !.depthmaps = @ \o R("depth"),
            !.alphamaps = @ \o R("alpha"),
            !.normals = @ \o R("normal"),
            !.depth_normals = @ \o R("depth_normal")]

\* Faulty variant of reconstruction: the buffers are not reset first.
ReconstructionDroppingClean(ex, viewpoint_stack, state) ==
    LET filled == ReconstructLoop(
                      [ex EXCEPT !.viewpoint_stack = viewpoint_stack], state)
    IN  [ex |-> filled,
         raised |-> IF StackRaises(filled.rgbmaps) THEN "RuntimeError"
                    ELSE "none"]

\* reconstruction: clean, set the stack, render every camera, stack the
\* buffers.  When torch.stack raises, the fields stay as the loop left them.
reconstruction(ex, viewpoint_stack, state) ==
    LET cleaned == clean(ex)
        filled == ReconstructLoop(
                      [cleaned EXCEPT !.viewpoint_stack = viewpoint_stack],
                      state)
    IN  [ex |-> filled,
         raised |-> IF StackRaises(filled.rgbmaps) THEN "RuntimeError"
                    ELSE "none"]

\* to_cam_open3d for one camera: pinhole intrinsics from the image size and
\* field of view, extrinsics from the transposed world-view transform.
\* Quotients and the tangent stay symbolic.
CamOpen3d(viewpoint_cam) ==
    [intrinsic |->
        [width |-> image_width(viewpoint_cam),
         height |-> image_height(viewpoint_cam),
         cx |-> [num |-> image_width(viewpoint_cam), den |-> 2],
         cy |-> [num |-> image_height(viewpoint_cam), den |-> 2],
         fx |-> [num |-> image_width(viewpoint_cam),
                 two_tan_half |-> FoVx(viewpoint_cam)],
         fy |-> [num |-> image_height(viewpoint_cam),
                 two_tan_half |-> FoVy(viewpoint_cam)]],
     extrinsic |-> [transpose_of |-> world_view_transform(viewpoint_cam)]]

to_cam_open3d(viewpoint_stack) ==
    [i \in 1..Len(viewpoint_stack) |-> CamOpen3d(viewpoint_stack[i])]

NoMesh == [kind |-> "none"]

\* Faulty variant of IntegrateOne: every integration reads the first maps.
IntegrateFirstMaps(st, i, cam_o3d, depth_trunc, mask_backgrond) ==
    LET ex == st.ex
        rgbd == [color |-> ex.rgbmaps[1], depth |-> ex.depthmaps[1],
                 depth_trunc |-> depth_trunc,
                 depth_scale |-> 1, convert_rgb_to_intensity |-> FALSE]
    IN  [ex |-> ex,
         volume |-> Append(st.volume,
                        [op |-> "integrate", rgbd |-> rgbd,
                         intrinsic |-> cam_o3d.intrinsic,
                         extrinsic |-> cam_o3d.extrinsic])]

\* Body of the integration loop for position i: mask the depth map in place
\* when the camera has an alpha mask, build the RGBD image, integrate it.
IntegrateOne(st, i, cam_o3d, depth_trunc, mask_backgrond) ==
    LET ex == st.ex
        rgb == ex.rgbmaps[i]
        useMask == mask_backgrond /\ HasAlphaMask(ex.viewpoint_stack[i])
        depth == IF useMask THEN [ex.depthmaps[i] EXCEPT !.masked = TRUE]
                 ELSE ex.depthmaps[i]
        rgbd == [color |-> rgb, depth |-> depth, depth_trunc |-> depth_trunc,
                 depth_scale |-> 1, convert_rgb_to_intensity |-> FALSE]
    IN  [ex |-> [ex EXCEPT !.depthmaps[i] = depth],
         volume |-> Append(st.volume,
                        [op |-> "integrate", rgbd |-> rgbd,
                         intrinsic |-> cam_o3d.intrinsic,
                         extrinsic |-> cam_o3d.extrinsic])]

RECURSIVE IntegrateLoop(_, _, _, _, _)
IntegrateLoop(st, i, camera_traj, depth_trunc, mask_backgrond) ==
    IF i > Len(camera_traj) THEN st
    ELSE IntegrateLoop(
             IntegrateOne(st, i, camera_traj[i], depth_trunc, mask_backgrond),
             i + 1, camera_traj, depth_trunc, mask_backgrond)

Integrations(log) == SelectSeq(log, LAMBDA e : e.op = "integrate")

\* extract_mesh_bounded: a new volume, one integration per camera, then the
\* triangle mesh of the volume.  Lengths are in thousandths (0.004 is 4).
extract_mesh_bounded(ex, voxel_size, sdf_trunc, depth_trunc, mask_backgrond) ==
    LET created == <<[op |-> "ScalableTSDFVolume", voxel_length |-> voxel_size,
                      sdf_trunc |-> sdf_trunc]>>
        done == IntegrateLoop([ex |-> ex, volume |-> created], 1,
                              to_cam_open3d(ex.viewpoint_stack),
                              depth_trunc, mask_backgrond)
    IN  [ex |-> done.ex,
         volume |-> Append(done.volume, [op |-> "extract_triangle_mesh"]),
         mesh |-> [kind |-> "tsdf", voxel_length |-> voxel_size,
                   sdf_trunc |-> sdf_trunc,
                   fused |-> Integrations(done.volume)],
         raised |-> "none"]

\* The six files export_image writes for the camera at index idx, in order.
ExportedFiles(path, idx) ==
    LET render_path == PathJoin(path, "renders")
        gts_path == PathJoin(path, "gt")
        vis_path == PathJoin(path, "vis")
    IN  << PathJoin(gts_path, Format05d(idx) \o ".png"),
           PathJoin(render_path, Format05d(idx) \o ".png"),
           PathJoin(vis_path, "depth_" \o Format05d(idx) \o ".tiff"),
           PathJoin(vis_path, "depth_" \o Format05d(idx) \o ".png"),
           PathJoin(vis_path, "normal_" \o Format05d(idx) \o ".png"),
           PathJoin(vis_path, "depth_normal_" \o Format05d(idx) \o ".png") >>

\* The export loop: the files of camera 0, then of camera 1, and so on.
ExportLoop(viewpoint_stack, path) ==
    [j \in 1..(6 * Len(viewpoint_stack)) |->
        ExportedFiles(path, (j - 1) \div 6)[((j - 1) % 6) + 1]]

Range(s) == {s[i] : i \in 1..Len(s)}

\* export_image: make the three directories, then write six files per camera.
export_image(ex, path, files) ==
    LET made == MakeDirs(MakeDirs(MakeDirs(files,
                        PathJoin(path, "renders")),
                        PathJoin(path, "vis")),
                        PathJoin(path, "gt"))
        written == ExportLoop(ex.viewpoint_stack, path)
    IN  [fs |-> made \cup Range(written), writes |-> written]

-----------------------------------------------------------------------------
(* Spec: a client of one GaussianExtractor *)

NoRecon == [called |-> FALSE, ok |-> FALSE]
NoArgs == [parsed |-> FALSE]
NoScene == [loaded |-> FALSE]
NoVideo == [written |-> FALSE]
NoPost == [applied |-> FALSE]

ExportPaths == {<<"out", "a">>, <<"out", "b">>}
States == {"train", "mesh"}

\* GaussianExtractor.__init__ ends with clean()
NewExtractor ==
    /\ gaussExtractor = clean(EmptyLists)
    /\ writes = <<>>
    /\ volume = <<>>
    /\ mesh = NoMesh
    /\ lastRecon = NoRecon
    /\ lastOp = [name |-> "__init__"]
    /\ raised = "none"
    /\ calls = 0

Init ==
    /\ NewExtractor
    /\ fs = {}
    /\ pm = NoPost
    /\ pc = "client"
    /\ args = NoArgs
    /\ scene = NoScene
    /\ mesh_i = 0
    /\ trace = <<>>
    /\ video = NoVideo

CallClean ==
    /\ calls < MaxCalls
    /\ gaussExtractor' = clean(gaussExtractor)
    /\ lastRecon' = NoRecon
    /\ lastOp' = [name |-> "clean"]
    /\ raised' = "none"
    /\ calls' = calls + 1
    /\ UNCHANGED <<fs, writes, volume, mesh, pm, scriptVars>>

CallReconstruction ==
    /\ calls < MaxCalls
    /\ \E viewpoint_stack \in ClientLists, state \in States :
          LET r == reconstruction(gaussExtractor, viewpoint_stack, state)
          IN  /\ gaussExtractor' = r.ex
              /\ raised' = r.raised
              /\ lastRecon' = [called |-> TRUE, cams |-> viewpoint_stack,
                               state |-> state, ok |-> r.raised = "none"]
    /\ lastOp' = [name |-> "reconstruction"]
    /\ calls' = calls + 1
    /\ UNCHANGED <<fs, writes, volume, mesh, pm, scriptVars>>

\* The client extracts with the default depth_trunc, with or without the
\* background mask.
CallExtractMeshBounded ==
    /\ calls < MaxCalls
    /\ \E depth_trunc \in {3}, mask_backgrond \in BOOLEAN :
          LET r == extract_mesh_bounded(gaussExtractor, 4, 20, depth_trunc,
                                        mask_backgrond)
          IN  /\ gaussExtractor' = r.ex
              /\ volume' = r.volume
              /\ mesh' = r.mesh
              /\ raised' = r.raised
              /\ lastOp' = [name |-> "extract_mesh_bounded",
                            depth_trunc |-> depth_trunc,
                            mask_backgrond |-> mask_backgrond]
    /\ calls' = calls + 1
    /\ UNCHANGED <<fs, writes, lastRecon, pm, scriptVars>>

CallExportImage ==
    /\ calls < MaxCalls
    /\ \E path \in ExportPaths :
          LET r == export_image(gaussExtractor, path, fs)
          IN  /\ fs' = r.fs
              /\ writes' = r.writes
              /\ lastOp' = [name |-> "export_image", path |-> path]
    /\ raised' = "none"
    /\ calls' = calls + 1
    /\ UNCHANGED <<gaussExtractor, volume, mesh, lastRecon, pm, scriptVars>>

Next ==
    \/ CallClean
    \/ CallReconstruction
    \/ CallExtractMeshBounded
    \/ CallExportImage

Spec == Init /\ [][Next]_vars

-----------------------------------------------------------------------------
(* Properties of the extractor *)

BufferKinds ==
    [rgbmaps |-> "rgb", depthmaps |-> "depth", alphamaps |-> "alpha",
     normals |-> "normal", depth_normals |-> "depth_normal"]

\* C1: after a successful reconstruction over a non-empty camera list (and
\* until the next clean), viewpoint_stack is the list of that call and each
\* of the five buffers holds exactly one entry per camera of that call, entry
\* i rendered from camera i; nothing of an earlier call remains.
C1_BuffersOfLatestCall ==
    (lastRecon.called /\ lastRecon.ok /\ Len(lastRecon.cams) > 0) =>
        /\ gaussExtractor.viewpoint_stack = lastRecon.cams
        /\ \A f \in DOMAIN BufferKinds :
              /\ Len(gaussExtractor[f]) = Len(lastRecon.cams)
              /\ \A i \in 1..Len(lastRecon.cams) :
                    /\ gaussExtractor[f][i].map = BufferKinds[f]
                    /\ gaussExtractor[f][i].view = lastRecon.cams[i]
                    /\ gaussExtractor[f][i].time_input.from
                           = (IF lastRecon.state = "mesh" THEN "time"
                              ELSE "fid")

\* a one-camera reconstruction made after a two-camera reconstruction whose
\* buffers had been fused (a log of create, two integrations, extract)
C1_Witness ==
    /\ lastOp.name = "reconstruction"
    /\ raised = "none"
    /\ lastRecon.ok
    /\ Len(lastRecon.cams) = 1
    /\ Len(volume) = 4
    /\ Len(gaussExtractor.rgbmaps) = 1

\* C2: extract_mesh_bounded integrates once per camera of viewpoint_stack, in
\* stack order, integration i from rgbmaps[i], depthmaps[i] and the
\* intrinsics and extrinsics of camera i, and extracts the triangle mesh
\* exactly once, after every integration.
C2_OneIntegrationPerCamera ==
    lastOp.name = "extract_mesh_bounded" =>
        LET vs == gaussExtractor.viewpoint_stack
            n == Len(vs)
        IN  /\ Len(volume) = n + 2
            /\ volume[1].op = "ScalableTSDFVolume"
            /\ \A i \in 1..n :
                  /\ volume[i + 1].op = "integrate"
                  /\ volume[i + 1].rgbd.color = gaussExtractor.rgbmaps[i]
                  /\ volume[i + 1].rgbd.depth = gaussExtractor.depthmaps[i]
                  /\ volume[i + 1].intrinsic.width = image_width(vs[i])
                  /\ volume[i + 1].intrinsic.height = image_height(vs[i])
                  /\ volume[i + 1].intrinsic.fx.two_tan_half = FoVx(vs[i])
                  /\ volume[i + 1].intrinsic.fy.two_tan_half = FoVy(vs[i])
                  /\ volume[i + 1].extrinsic.transpose_of
                         = world_view_transform(vs[i])
            /\ volume[n + 2].op = "extract_triangle_mesh"
            /\ Len(mesh.fused) = n

\* an extraction over two different cameras, the second one masked
C2_Witness ==
    /\ lastOp.name = "extract_mesh_bounded"
    /\ lastRecon.ok
    /\ Len(gaussExtractor.viewpoint_stack) = 2
    /\ gaussExtractor.viewpoint_stack[1] # gaussExtractor.viewpoint_stack[2]
    /\ gaussExtractor.depthmaps[2].masked

\* The names the claim gives, written out for camera indices below 10.
PaddedName(idx) == "0000" \o Digits[idx + 1]

ClaimedFiles(path, idx) ==
    << path \o <<"gt", PaddedName(idx) \o ".png">>,
       path \o <<"renders", PaddedName(idx) \o ".png">>,
       path \o <<"vis", "depth_" \o PaddedName(idx) \o ".tiff">>,
       path \o <<"vis", "depth_" \o PaddedName(idx) \o ".png">>,
       path \o <<"vis", "normal_" \o PaddedName(idx) \o ".png">>,
       path \o <<"vis", "depth_normal_" \o PaddedName(idx) \o ".png">> >>

\* C10: export_image(path) creates path/renders, path/gt and path/vis and
\* writes, for each camera index in stack order, exactly the six named files;
\* with an empty viewpoint_stack it creates the directories and writes nothing.
C10_SixFilesPerCamera ==
    lastOp.name = "export_image" =>
        LET n == Len(gaussExtractor.viewpoint_stack)
            path == lastOp.path
        IN  /\ {path \o <<"renders">>, path \o <<"gt">>, path \o <<"vis">>}
                  \subseteq fs
            /\ Len(writes) = 6 * n
            /\ Cardinality(Range(writes)) = 6 * n
            /\ \A idx \in 0..(n - 1) :
                  SubSeq(writes, 6 * idx + 1, 6 * idx + 6)
                      = ClaimedFiles(path, idx)
            /\ Range(writes) \subseteq fs

\* an export after a reconstruction over two cameras
C10_Witness ==
    /\ lastOp.name = "export_image"
    /\ lastRecon.ok
    /\ Len(gaussExtractor.viewpoint_stack) = 2
    /\ Len(writes) = 12

-----------------------------------------------------------------------------
(* PostSpec: post_process_mesh on every small mesh *)

\* Index triples over Verts: the proper triangles and the degenerate ones
\* that repeat their first index, in both orientations.
Triples == {t \in Verts \X Verts \X Verts : t[1] <= t[2] /\ t[2] < t[3]}
Oriented(t) == IF (t[1] + t[2] + t[3]) % 2 = 1 THEN <<t[3], t[2], t[1]>> ELSE t
Code(t) == 100 * t[1] + 10 * t[2] + t[3]

TriangleLists ==
    UNION {{[i \in 1..n |-> Oriented(l[i])] :
               l \in {x \in [1..n -> Triples] :
                         \A i \in 1..(n - 1) : Code(x[i]) < Code(x[i + 1])}} :
           n \in 0..MaxTris}

InputMeshes ==
    {[vertices |-> [i \in 1..Cardinality(Verts) |-> Point(i - 1)],
      triangles |-> tl] : tl \in TriangleLists}

PostInit ==
    /\ NewExtractor
    /\ fs = {}
    /\ pm \in {[applied |-> FALSE, mesh |-> m, num_triangles_to_keep |-> k] :
                  m \in InputMeshes, k \in 0..(MaxTris + 1)}
    /\ pc = "post"
    /\ args = NoArgs
    /\ scene = NoScene
    /\ mesh_i = 0
    /\ trace = <<>>
    /\ video = NoVideo

CallPostProcessMesh ==
    /\ ~pm.applied
    /\ pm' = [applied |-> TRUE, mesh |-> pm.mesh,
              num_triangles_to_keep |-> pm.num_triangles_to_keep,
              mesh_0 |-> post_process_mesh(pm.mesh, pm.num_triangles_to_keep)]
    /\ UNCHANGED <<extractorVars, scriptVars>>

PostNext == CallPostProcessMesh

PostSpec == PostInit /\ [][PostNext]_vars

\* A triangle as the triple of points it joins.
Geometry(m, tri) == [j \in 1..3 |-> m.vertices[tri[j] + 1]]
Geometries(m) == {Geometry(m, m.triangles[t]) : t \in 1..Len(m.triangles)}

\* C3: the returned mesh has no triangle of a connected cluster of fewer than
\* k triangles, and has every non-degenerate triangle of a cluster of at
\* least k triangles; the input mesh is left as it was.
C3_SmallClustersRemoved ==
    pm.applied =>
        LET m == pm.mesh
            k == pm.num_triangles_to_keep
            out == pm.mesh_0
        IN  /\ \A t \in 1..Len(m.triangles) :
                  LET size == Cardinality(Cluster(m.triangles, t))
                      g == Geometry(m, m.triangles[t])
                  IN  /\ size < k => g \notin Geometries(out)
                      /\ (size >= k /\ ~IsDegenerate(m.triangles[t]))
                            => g \in Geometries(out)
            /\ Geometries(out) \subseteq Geometries(m)
            /\ \A t \in 1..Len(out.triangles) : ~IsDegenerate(out.triangles[t])

\* a mesh with a cluster of two triangles, kept, and a separate single
\* triangle, removed, whose vertices were renumbered
C3_Witness ==
    /\ pm.applied
    /\ pm.num_triangles_to_keep = 2
    /\ Len(pm.mesh.triangles) = 3
    /\ Len(pm.mesh_0.triangles) = 2
    /\ \A t \in 1..3 : ~IsDegenerate(pm.mesh.triangles[t])
    /\ Len(pm.mesh_0.vertices) < Len(pm.mesh.vertices)

-----------------------------------------------------------------------------
(* ScriptSpec: one run of render_mesh_trajectory.py *)
(* The run starts on a Blender-format dataset that loaded: the scene has at *)
(* least one training camera, its images share one size, and source_path    *)
(* holds transforms_test.json.                                              *)

n_fames == 240
frame == 100
fps == 25

model_path == <<"model">>
source_path == <<"data">>

\* What argparse returns for a command line: the store_true flags and the
\* valued options (absent options carry their defaults 3.0, 1000, 1024 and
\* 0.004, the latter in thousandths).
CommandLines ==
    [skip_train : BOOLEAN, skip_test : BOOLEAN, skip_mesh : BOOLEAN,
     render_path : BOOLEAN, unbounded : BOOLEAN,
     depth_trunc : {3, 6}, num_cluster : {1000}, mesh_res : {1024},
     voxel_size : {4}]

\* args = get_combined_args(parser); args.depth_trunc = 6
ParseArgs(cmdline) == [cmdline EXCEPT !.depth_trunc = 6]

\* Entries a mesh_shape directory may hold from earlier runs.
PriorShapes ==
    { {}, {"00000.png", "00001.png"}, {"00001.png"},
      {"00000.png", "notes.txt"} }

train_dir == PathJoin(PathJoin(model_path, "train"), "ours_" \o Str(scene.loaded_iter))
test_dir == PathJoin(PathJoin(model_path, "test"), "ours_" \o Str(scene.loaded_iter))
traj_dir == PathJoin(PathJoin(model_path, "traj"), "ours_" \o Str(scene.loaded_iter))
images_save_path == PathJoin(model_path, "mesh_image")
meshshape_save_path == PathJoin(model_path, "mesh_shape")
meshshape_gt_save_path == PathJoin(model_path, "mesh_shape_gt")

getTrainCameras == CameraList("train", scene.n_train, Time(0, 1))
getTestCameras == CameraList("test", scene.n_test, Time(0, 1))
getTrainCameras_mesh(mesh_time) == CameraList("train", scene.n_train, mesh_time)
generate_path(cams, n_frames) == CameraList("traj", n_frames, Time(0, 1))

ScriptInit ==
    /\ NewExtractor
    /\ pm = NoPost
    /\ pc = "train"
    /\ \E cmdline \in CommandLines :
          /\ args = ParseArgs(cmdline)
          /\ trace = <<[call |-> "get_combined_args", result |-> cmdline]>>
    /\ scene \in [loaded : {TRUE}, n_train : 1..MaxCams, n_test : 0..MaxCams,
                  loaded_iter : {30000}, active_sh_degree : {3}]
    /\ mesh_i = 0
    /\ \E prior \in PriorShapes :
          fs = {model_path, source_path,
                PathJoin(source_path, "transforms_test.json")}
               \cup (IF prior = {} THEN {} ELSE {meshshape_save_path})
               \cup {PathJoin(meshshape_save_path, e) : e \in prior}
    /\ video = NoVideo

Logged(event) == trace' = Append(trace, event)

\* One reconstruction of the script, its call logged; an exception ends the run.
Reconstruct(cams, state, next, before) ==
    LET r == reconstruction(gaussExtractor, cams, state)
    IN  /\ gaussExtractor' = r.ex
        /\ raised' = r.raised
        /\ lastRecon' = [called |-> TRUE, cams |-> cams, state |-> state,
                         ok |-> r.raised = "none"]
        /\ lastOp' = [name |-> "reconstruction"]
        /\ trace' = trace \o before
                      \o <<[call |-> "reconstruction", state |-> state,
                            n |-> Len(cams)]>>
        /\ pc' = IF r.raised = "none" THEN next ELSE "crashed"

Export(dir, next) ==
    LET r == export_image(gaussExtractor, dir, fs)
    IN  /\ fs' = r.fs
        /\ writes' = r.writes
        /\ lastOp' = [name |-> "export_image", path |-> dir]
        /\ raised' = "none"
        /\ Logged([call |-> "export_image", path |-> dir])
        /\ pc' = next

RunsTrain == ~args.skip_train

\* Faulty variant of RunsTest: the test camera count is not looked at.
RunsTestIgnoringCameras == ~args.skip_test
RunsTest == (~args.skip_test) /\ Len(getTestCameras) > 0

RunsVideo == args.render_path

RunsMesh == ~args.skip_mesh

TrainReconstruction ==
    /\ pc = "train" /\ RunsTrain
    /\ fs' = MakeDirs(fs, train_dir)
    /\ Reconstruct(getTrainCameras, "train", "train_export", <<>>)
    /\ UNCHANGED <<writes, volume, mesh, calls, pm, args, scene, mesh_i, video>>

TrainExport ==
    /\ pc = "train_export"
    /\ Export(train_dir, "test")
    /\ UNCHANGED <<gaussExtractor, volume, mesh, lastRecon, calls, pm, args,
                   scene, mesh_i, video>>

SkipTrain ==
    /\ pc = "train" /\ ~RunsTrain
    /\ pc' = "test"
    /\ UNCHANGED <<extractorVars, pm, args, scene, mesh_i, trace, video>>

TestReconstruction ==
    /\ pc = "test" /\ RunsTest
    /\ fs' = MakeDirs(fs, test_dir)
    /\ Reconstruct(getTestCameras, "test", "test_export", <<>>)
    /\ UNCHANGED <<writes, volume, mesh, calls, pm, args, scene, mesh_i, video>>

TestExport ==
    /\ pc = "test_export"
    /\ Export(test_dir, "video")
    /\ UNCHANGED <<gaussExtractor, volume, mesh, lastRecon, calls, pm, args,
                   scene, mesh_i, video>>

SkipTest ==
    /\ pc = "test" /\ ~RunsTest
    /\ pc' = "video"
    /\ UNCHANGED <<extractorVars, pm, args, scene, mesh_i, trace, video>>

VideoReconstruction ==
    /\ pc = "video" /\ RunsVideo
    /\ Reconstruct(generate_path(getTrainCameras, n_fames), "video",
                   "video_export", <<>>)
    /\ fs' = MakeDirs(fs, traj_dir)
    /\ UNCHANGED <<writes, volume, mesh, calls, pm, args, scene, mesh_i, video>>

\* export_image(traj_dir) and create_videos(...)
VideoExport ==
    /\ pc = "video_export"
    /\ LET r == export_image(gaussExtractor, traj_dir, fs)
       IN  /\ fs' = r.fs
           /\ writes' = r.writes
    /\ lastOp' = [name |-> "export_image", path |-> traj_dir]
    /\ raised' = "none"
    /\ trace' = trace \o <<[call |-> "export_image", path |-> traj_dir],
                           [call |-> "create_videos", input_dir |-> traj_dir,
                            out_name |-> "render_traj",
                            num_frames |-> n_fames]>>
    /\ pc' = "setup"
    /\ UNCHANGED <<gaussExtractor, volume, mesh, lastRecon, calls, pm, args,
                   scene, mesh_i, video>>

SkipVideo ==
    /\ pc = "video" /\ ~RunsVideo
    /\ pc' = "setup"
    /\ UNCHANGED <<extractorVars, pm, args, scene, mesh_i, trace, video>>

\* Read transforms_test.json, make the three output directories if missing.
SetupOutput ==
    /\ pc = "setup"
    /\ IF PathJoin(source_path, "transforms_test.json") \in fs
       THEN /\ fs' = fs \cup {images_save_path, meshshape_save_path,
                              meshshape_gt_save_path}
            /\ raised' = "none"
            /\ pc' = "mesh"
       ELSE /\ fs' = fs
            /\ raised' = "FileNotFoundError"
            /\ pc' = "crashed"
    /\ UNCHANGED <<gaussExtractor, writes, volume, mesh, lastRecon, lastOp,
                   calls, pm, args, scene, mesh_i, trace, video>>

SkipMesh ==
    /\ pc = "mesh" /\ ~RunsMesh
    /\ pc' = "assemble"
    /\ UNCHANGED <<extractorVars, pm, args, scene, mesh_i, trace, video>>

\* Head of the mesh loop and the reconstruction that opens its body.
MeshLoopHead ==
    /\ pc = "mesh" /\ RunsMesh
    /\ IF mesh_i < frame
       THEN LET mesh_time == Time(mesh_i, frame)
            IN  /\ fs' = MakeDirs(fs, train_dir)
                /\ scene' = [scene EXCEPT !.active_sh_degree = 0]
                /\ Reconstruct(getTrainCameras_mesh(mesh_time), "mesh",
                               "mesh_extract",
                               <<[call |-> "mesh_frame", i |-> mesh_i,
                                  mesh_time |-> mesh_time]>>)
       ELSE /\ pc' = "assemble"
            /\ UNCHANGED <<gaussExtractor, fs, lastRecon, lastOp, raised,
                           scene, trace>>
    /\ UNCHANGED <<writes, volume, mesh, calls, pm, args, mesh_i, video>>

\* The methods class GaussianExtractor defines.
ExtractorMethods ==
    {"__init__", "clean", "reconstruction", "extract_mesh_bounded",
     "export_image"}

\* The parameters post_process_mesh declares.
PostProcessMeshParams == {"mesh", "num_triangles_to_keep"}

Raise(exc) ==
    /\ raised' = exc
    /\ Logged([call |-> "raise", exc |-> exc])
    /\ pc' = "crashed"

\* if args.unbounded: extract_mesh_unbounded(resolution=args.mesh_res)
\* else: extract_mesh_bounded(voxel_size, 5 * voxel_size, args.depth_trunc)
MeshExtract ==
    /\ pc = "mesh_extract"
    /\ IF args.unbounded
       THEN IF "extract_mesh_unbounded" \in ExtractorMethods
            THEN /\ mesh' = [kind |-> "unbounded", resolution |-> args.mesh_res]
                 /\ Logged([call |-> "extract_mesh_unbounded",
                            resolution |-> args.mesh_res])
                 /\ pc' = "mesh_post"
                 /\ UNCHANGED <<gaussExtractor, volume, lastOp, raised>>
            ELSE /\ Raise("AttributeError")
                 /\ UNCHANGED <<gaussExtractor, volume, mesh, lastOp>>
       ELSE LET r == extract_mesh_bounded(gaussExtractor, args.voxel_size,
                         5 * args.voxel_size, args.depth_trunc, TRUE)
            IN  /\ gaussExtractor' = r.ex
                /\ volume' = r.volume
                /\ mesh' = r.mesh
                /\ raised' = r.raised
                /\ lastOp' = [name |-> "extract_mesh_bounded",
                              depth_trunc |-> args.depth_trunc,
                              mask_backgrond |-> TRUE]
                /\ Logged([call |-> "extract_mesh_bounded",
                           voxel_size |-> args.voxel_size,
                           sdf_trunc |-> 5 * args.voxel_size,
                           depth_trunc |-> args.depth_trunc])
                /\ pc' = "mesh_post"
    /\ UNCHANGED <<fs, writes, lastRecon, calls, pm, args, scene, mesh_i,
                   video>>

\* The rest of the loop body: post_process_mesh(mesh, cluster_to_keep=...),
\* the test camera cam[0], render_mesh and mesh_shape_renderer, and the two
\* images named str(i).zfill(5).  A keyword post_process_mesh does not
\* declare raises TypeError; an empty test camera list raises IndexError.
MeshPostProcessAndRender ==
    /\ pc = "mesh_post"
    /\ IF ~({"cluster_to_keep"} \subseteq PostProcessMeshParams)
       THEN /\ Raise("TypeError")
            /\ UNCHANGED <<fs, pm, mesh_i>>
       ELSE /\ pm' = [applied |-> TRUE, mesh |-> mesh,
                      num_triangles_to_keep |-> args.num_cluster,
                      mesh_0 |-> [kind |-> "post_processed", of |-> mesh]]
            /\ IF Len(getTestCameras) = 0
               THEN /\ Raise("IndexError")
                    /\ UNCHANGED <<fs, mesh_i>>
               ELSE LET imagename == ZFill(Str(mesh_i), 5)
                        image == PathJoin(images_save_path,
                                          imagename \o ".png")
                        shape == PathJoin(meshshape_save_path,
                                          imagename \o ".png")
                    IN  /\ fs' = fs \cup {image, shape}
                        /\ trace' = trace \o
                              <<[call |-> "post_process_mesh", i |-> mesh_i],
                                [call |-> "render_mesh", i |-> mesh_i],
                                [call |-> "imwrite", path |-> image],
                                [call |-> "mesh_shape_renderer", i |-> mesh_i],
                                [call |-> "imwrite", path |-> shape]>>
                        /\ raised' = "none"
                        /\ mesh_i' = mesh_i + 1
                        /\ pc' = "mesh"
    /\ UNCHANGED <<gaussExtractor, writes, volume, mesh, lastRecon, lastOp,
                   calls, args, scene, video>>

\* Read one image per entry of mesh_shape, named by position, then write
\* the video.  imread of a missing file raises FileNotFoundError.
AssembleVideo ==
    /\ pc = "assemble"
    /\ LET n == Cardinality(ListDir(fs, meshshape_save_path))
           file(k) == PathJoin(meshshape_save_path, ZFill(Str(k), 5) \o ".png")
       IN  IF \A k \in 0..(n - 1) : file(k) \in fs
           THEN /\ video' = [written |-> TRUE, name |-> "output_video.mp4",
                             fps |-> fps,
                             frames |-> [k \in 1..n |-> file(k - 1)]]
                /\ raised' = "none"
                /\ Logged([call |-> "get_writer", frames |-> n])
                /\ pc' = "done"
           ELSE /\ Raise("FileNotFoundError")
                /\ UNCHANGED video
    /\ UNCHANGED <<gaussExtractor, fs, writes, volume, mesh, lastRecon,
                   lastOp, calls, pm, args, scene, mesh_i>>

ScriptNext ==
    \/ TrainReconstruction
    \/ TrainExport
    \/ SkipTrain
    \/ TestReconstruction
    \/ TestExport
    \/ SkipTest
    \/ VideoReconstruction
    \/ VideoExport
    \/ SkipVideo
    \/ SetupOutput
    \/ MeshLoopHead
    \/ SkipMesh
    \/ MeshExtract
    \/ MeshPostProcessAndRender
    \/ AssembleVideo

ScriptSpec == ScriptInit /\ [][ScriptNext]_vars

Terminated == pc \in {"done", "crashed"}

-----------------------------------------------------------------------------
(* Properties of the script *)

\* What the command line gave, before the script changed args.
Cmd == trace[1].result

CallsOf(name) == SelectSeq(trace, LAMBDA e : e.call = name)

ReconStates ==
    LET r == CallsOf("reconstruction")
    IN  [j \in 1..Len(r) |-> r[j].state]

ExpectedStages ==
    (IF ~Cmd.skip_train THEN <<"train">> ELSE <<>>)
    \o (IF (~Cmd.skip_test) /\ scene.n_test > 0 THEN <<"test">> ELSE <<>>)
    \o (IF Cmd.render_path THEN <<"video">> ELSE <<>>)

StageDir(state) ==
    CASE state = "train" -> train_dir
      [] state = "test" -> test_dir
      [] state = "video" -> traj_dir

IsPrefix(a, b) == Len(a) <= Len(b) /\ a = SubSeq(b, 1, Len(a))

\* C7: a run reconstructs with state train iff --skip_train is absent, test
\* iff --skip_test is absent and there is a test camera, video iff
\* --render_path is given, mesh iff --skip_mesh is absent; in the order train,
\* test, video, mesh; and each of the first three stages exports into its own
\* directory right after its reconstruction, before any later reconstruction.
C7_StagesFollowFlags ==
    LET early == SelectSeq(ReconStates, LAMBDA st : st # "mesh")
    IN  /\ IsPrefix(early, ExpectedStages)
        /\ \A j \in 1..Len(ReconStates) :
              ReconStates[j] = "mesh" =>
                  /\ early = ExpectedStages
                  /\ \A k \in j..Len(ReconStates) : ReconStates[k] = "mesh"
                  /\ ~Cmd.skip_mesh
        /\ \A j \in 1..Len(trace) :
              (/\ trace[j].call = "reconstruction"
               /\ trace[j].state # "mesh"
               /\ j < Len(trace))
                 => /\ trace[j + 1].call = "export_image"
                    /\ trace[j + 1].path = StageDir(trace[j].state)
        /\ Terminated =>
              /\ early = ExpectedStages
              /\ (\E j \in 1..Len(ReconStates) : ReconStates[j] = "mesh")
                     <=> ~Cmd.skip_mesh
              /\ \A j \in 1..Len(early) :
                    StageDir(early[j]) \o <<"renders", "00000.png">> \in fs

\* a finished run in which all four stages ran
C7_Witness ==
    /\ Terminated
    /\ ReconStates = <<"train", "test", "video", "mesh">>
    /\ Len(CallsOf("export_image")) = 3

\* C4 as claimed: every mesh the mesh stage extracts is then post-processed,
\* keeping the largest N clusters, N the value of --num_cluster.
C4_ExtractedMeshPostProcessed ==
    Terminated =>
        \A j \in 1..Len(trace) :
            trace[j].call \in {"extract_mesh_bounded", "extract_mesh_unbounded"}
                => /\ \E k \in (j + 1)..Len(trace) :
                         trace[k].call = "post_process_mesh"
                   /\ pm.applied
                   /\ pm.num_triangles_to_keep = Cmd.num_cluster

\* C5 as claimed: bounded fusion uses the depth range given with
\* --depth_trunc (3.0 when the option is absent).
C5_DepthTruncFromCommandLine ==
    \A j \in 1..Len(trace) :
        trace[j].call = "extract_mesh_bounded"
            => trace[j].depth_trunc = Cmd.depth_trunc

\* C6 as claimed: with --unbounded every mesh-stage frame is extracted by
\* extract_mesh_unbounded at resolution --mesh_res and goes on to
\* post-processing.
C6_UnboundedExtraction ==
    (Terminated /\ Cmd.unbounded /\ ~Cmd.skip_mesh) =>
        \E j \in 1..Len(trace) :
            /\ trace[j].call = "extract_mesh_unbounded"
            /\ trace[j].resolution = Cmd.mesh_res
            /\ \E k \in (j + 1)..Len(trace) :
                  trace[k].call = "post_process_mesh"

\* The images the mesh stage is claimed to write: for each frame index in
\* increasing order, one into mesh_image, then one into mesh_shape.
ClaimedFrameImages ==
    [j \in 1..(2 * frame) |->
        LET i == (j - 1) \div 2
        IN  (IF j % 2 = 1 THEN images_save_path ELSE meshshape_save_path)
                \o <<Format05d(i) \o ".png">>]

\* C8 as claimed: when the mesh stage is not skipped it processes frames
\* 0..99 in increasing order, each once, writing both images of a frame before
\* the next frame starts.
C8_AllFramesInOrder ==
    (Terminated /\ ~Cmd.skip_mesh) =>
        LET w == CallsOf("imwrite")
        IN  /\ [j \in 1..Len(w) |-> w[j].path] = ClaimedFrameImages
            /\ Len(CallsOf("mesh_frame")) = frame

\* The mesh_shape directory holds exactly the images named by position.
ShapeEntriesByIndex ==
    LET entries == ListDir(fs, meshshape_save_path)
    IN  entries = {Format05d(k) \o ".png" :
                      k \in 0..(Cardinality(entries) - 1)}

\* C9 as claimed: at the end of a run, mesh stage skipped or not, the script
\* writes output_video.mp4 with one frame per entry of mesh_shape, read from
\* 00000.png to (n-1).png in increasing order (no frame for an empty
\* directory).
C9_VideoFromShapeImages ==
    (Terminated /\ ShapeEntriesByIndex) =>
        LET n == Cardinality(ListDir(fs, meshshape_save_path))
        IN  /\ video # NoVideo
            /\ video.frames =
                  [k \in 1..n |->
                      meshshape_save_path \o <<Format05d(k - 1) \o ".png">>]

====
